---- MODULE Spec2Model ----
(***************************************************************************)
(* KellyBot: the RSI-bucket estimator (init_kelly) and the tick handlers   *)
(* (price_kelly, price_baseline) of src/kellybot.py.                       *)
(*                                                                         *)
(* Python floats are modelled as exact rationals [n, d] in lowest terms    *)
(* with d > 0; floating-point rounding is outside the model.  Sequences    *)
(* are 1-based here, so Python's x[i] is x[i + 1].                         *)
(***************************************************************************)
EXTENDS Integers, Sequences, FiniteSets, TLC

VARIABLES history, kelly_sizes, owns_position, cash, account, orders, fault, ticks, call

vars == <<history, kelly_sizes, owns_position, cash, account, orders, fault, ticks, call>>

----------------------------------------------------------------------------
(* Bounds of the model *)

\* largest number of (current, future) observations a modelled history yields
MaxObs == 2
\* modelled historical prices are 1..MaxPrice
MaxPrice == 3
\* number of ticks a modelled session runs
MaxTicks == 2
\* oscillator readings of the band check reach OscOver beyond the nominal 0..100
OscOver == 20
\* oscillator readings of the band check are multiples of 1/OscDen
OscDen == 2

(* Program constants *)

LookAhead == 15
LookBehind == 14
NumBands == 10
BandWidth == 10
TopBandStart == 90
InitialCash == 10000
Decimals == 2

----------------------------------------------------------------------------
(* Exact rational arithmetic standing in for Python float arithmetic *)

Abs(x) == IF x < 0 THEN -x ELSE x

RECURSIVE GCD(_, _)
GCD(a, b) == IF b = 0 THEN a ELSE GCD(b, a % b)

Rat(n, d) ==
  LET g == GCD(Abs(n), Abs(d))
      s == IF d < 0 THEN -1 ELSE 1
  IN  [n |-> (s * n) \div g, d |-> (s * d) \div g]

Zero == [n |-> 0, d |-> 1]
One == [n |-> 1, d |-> 1]
FromInt(i) == [n |-> i, d |-> 1]

RAdd(a, b) == Rat(a.n * b.d + b.n * a.d, a.d * b.d)
RSub(a, b) == Rat(a.n * b.d - b.n * a.d, a.d * b.d)
RMul(a, b) == Rat(a.n * b.n, a.d * b.d)
RDiv(a, b) == Rat(a.n * b.d, a.d * b.n)
RNeg(a) == [n |-> -a.n, d |-> a.d]
RLess(a, b) == a.n * b.d < b.n * a.d
RLeq(a, b) == a.n * b.d <= b.n * a.d
RMax(a, b) == IF RLess(a, b) THEN b ELSE a

\* Python's x // y on floats: the floor of the quotient
RFloorDiv(a, y) == a.n \div (a.d * y)

\* math.trunc: the integer part, rounding toward zero
TruncInt(a) == IF a.n >= 0 THEN a.n \div a.d ELSE -((-a.n) \div a.d)

RECURSIVE Pow10(_)
Pow10(k) == IF k = 0 THEN 1 ELSE 10 * Pow10(k - 1)

\* blankly.trunc(number, decimals): cut off after `decimals` decimal places
trunc(number, decimals) ==
  Rat(TruncInt(RMul(FromInt(Pow10(decimals)), number)), Pow10(decimals))

----------------------------------------------------------------------------
(* Band of an oscillator reading *)

\* variant: the upper clamp is missing
InitBandNoUpperClamp(r) ==
  IF RLess(r, Zero) THEN 0 ELSE RFloorDiv(r, BandWidth)

\* init_kelly: ind = int(r//10); if r < 0: ind = 0; elif r > 90: ind = 9
InitBand(r) ==
  IF RLess(r, Zero) THEN 0
  ELSE IF RLess(FromInt(TopBandStart), r) THEN NumBands - 1
  ELSE RFloorDiv(r, BandWidth)

Min(a, b) == IF a < b THEN a ELSE b
Max(a, b) == IF a > b THEN a ELSE b

\* price_kelly / price_baseline: ind = int(r//10); ind = max(0, ind); ind = min(9, ind)
TickBand(r) == Min(NumBands - 1, Max(0, RFloorDiv(r, BandWidth)))

----------------------------------------------------------------------------
(* init_kelly: bucket statistics and the Kelly table *)

Symbols == {"CRM", "SPY", "AAPL"}

\* Python list indexing x[ind] on a list of length len: negative indices wrap
PyInRange(ind, len) == -len <= ind /\ ind < len
PyIdx(ind, len) == IF ind < 0 THEN ind + len + 1 ELSE ind + 1

\* buckets = [[0,0,0,0] for i in range(10)]: <<wins, total, loss sum, win sum>>
EmptyBuckets == [b \in 1..NumBands |-> <<0, 0, Zero, Zero>>]

\* variant: the loop runs one iteration further, range(len(history) - 14)
LoopCountOneMore(h) == IF Len(h) - LookBehind > 0 THEN Len(h) - LookBehind ELSE 0

\* for i in range(len(history) - 15)
LoopCount(h) == Max(0, Len(h) - LookAhead)

\* the loop body reads rsi[i], history[i + 15], history[i + 14], buckets[ind]
\* and divides by history[i + 14]
IndexFault(h, rsi) ==
  \E i \in 0..(LoopCount(h) - 1) :
     \/ i + 1 > Len(rsi)
     \/ i + LookAhead + 1 > Len(h)
     \/ /\ i + 1 <= Len(rsi)
        /\ ~PyInRange(InitBand(rsi[i + 1]), NumBands)

DivFault(h) ==
  \E i \in 0..(LoopCount(h) - 1) :
     /\ i + LookAhead + 1 <= Len(h)
     /\ h[i + LookBehind + 1] = 0
     /\ h[i + LookAhead + 1] # 0

\* variant: the second branch is a plain else, so a tie counts as a loss
RECURSIVE AccumulateTieAsLoss(_, _, _)
AccumulateTieAsLoss(h, rsi, k) ==
  IF k = 0 THEN EmptyBuckets
  ELSE LET prev == AccumulateTieAsLoss(h, rsi, k - 1)
           i == k - 1
           p == h[i + LookAhead + 1]
           cp == h[i + LookBehind + 1]
           j == PyIdx(InitBand(rsi[i + 1]), NumBands)
       IN  IF cp < p
             THEN [prev EXCEPT ![j] =
                     <<@[1] + 1, @[2] + 1, @[3], RAdd(@[4], Rat(p - cp, cp))>>]
             ELSE [prev EXCEPT ![j] =
                     <<@[1], @[2] + 1, RAdd(@[3], Rat(p - cp, cp)), @[4]>>]

\* buckets after the first k iterations of the loop
RECURSIVE Accumulate(_, _, _)
Accumulate(h, rsi, k) ==
  IF k = 0 THEN EmptyBuckets
  ELSE LET prev == Accumulate(h, rsi, k - 1)
           i == k - 1
           r == rsi[i + 1]
           p == h[i + LookAhead + 1]
           cp == h[i + LookBehind + 1]
           j == PyIdx(InitBand(r), NumBands)
       IN  IF cp < p
             THEN [prev EXCEPT ![j] =
                     <<@[1] + 1, @[2] + 1, @[3], RAdd(@[4], Rat(p - cp, cp))>>]
           ELSE IF cp > p
             THEN [prev EXCEPT ![j] =
                     <<@[1], @[2] + 1, RAdd(@[3], Rat(p - cp, cp)), @[4]>>]
           ELSE prev

\* the ratio of one bucket divides by elem[2] on its last branch
RatioFault(elem) == elem[1] # 0 /\ elem[2] - elem[1] # 0 /\ elem[3].n = 0

\* variant: the average win divides by the total count elem[1]
ratiosByTotal(elem) ==
  IF elem[1] = 0 THEN Zero
  ELSE IF elem[2] - elem[1] = 0 THEN One
  ELSE RDiv(RDiv(RNeg(elem[4]), FromInt(elem[2])),
            RDiv(elem[3], FromInt(elem[2] - elem[1])))

\* ratios: 0 without wins, 1 without losses, else (-elem[3]/elem[0])/(elem[2]/(elem[1]-elem[0]))
ratios(elem) ==
  IF elem[1] = 0 THEN Zero
  ELSE IF elem[2] - elem[1] = 0 THEN One
  ELSE RDiv(RDiv(RNeg(elem[4]), FromInt(elem[1])),
            RDiv(elem[3], FromInt(elem[2] - elem[1])))

\* probs: elem[0]/elem[1] if elem[1] != 0 else 0
probs(elem) == IF elem[2] # 0 THEN Rat(elem[1], elem[2]) ELSE Zero

\* variant: the Kelly value is not clamped at 0
KellySizeUnclamped(elem) ==
  IF ratios(elem) # Zero
    THEN RSub(probs(elem), RDiv(RSub(One, probs(elem)), ratios(elem)))
    ELSE Zero

\* kelly_sizes: max(0, probs - (1 - probs)/ratios) if ratios != 0 else 0
KellySize(elem) ==
  IF ratios(elem) # Zero
    THEN RMax(Zero, RSub(probs(elem), RDiv(RSub(One, probs(elem)), ratios(elem))))
    ELSE Zero

KellyTable(bk) == [b \in 1..Len(bk) |-> KellySize(bk[b])]

\* init_kelly(symbol, state), with the fetched history h and the indicator's series rsi
init_kelly(s, h, rsi) ==
  /\ history' = [history EXCEPT ![s] = h]
  /\ IF IndexFault(h, rsi)
       THEN /\ fault' = "IndexError"
            /\ call' = [op |-> "init_kelly", symbol |-> s, rsi |-> rsi]
            /\ UNCHANGED <<kelly_sizes, owns_position>>
     ELSE IF DivFault(h)
       THEN /\ fault' = "ZeroDivisionError"
            /\ call' = [op |-> "init_kelly", symbol |-> s, rsi |-> rsi]
            /\ UNCHANGED <<kelly_sizes, owns_position>>
     ELSE LET bk == Accumulate(h, rsi, LoopCount(h))
          IN  /\ call' = [op |-> "init_kelly", symbol |-> s, rsi |-> rsi, buckets |-> bk]
              /\ IF \E b \in 1..NumBands : RatioFault(bk[b])
                   THEN /\ fault' = "ZeroDivisionError"
                        /\ UNCHANGED <<kelly_sizes, owns_position>>
                   ELSE /\ kelly_sizes' = [kelly_sizes EXCEPT ![s] = KellyTable(bk)]
                        /\ owns_position' = [owns_position EXCEPT ![s] = "False"]
                        /\ UNCHANGED fault
  /\ UNCHANGED <<cash, account, orders, ticks>>

----------------------------------------------------------------------------
(* Inputs of the estimator check *)

Prices == 1..MaxPrice

Flat(w, n) == [i \in 1..n |-> w]

\* histories: up to LookBehind flat prices, or a flat warm-up of LookBehind prices
\* continued by up to MaxObs + 1 free prices
Tails == UNION {[1..n -> Prices] : n \in 1..(MaxObs + 1)}
EstHistories ==
  {Flat(w, n) : w \in Prices, n \in 0..LookBehind}
    \cup {Flat(t[1], LookBehind) \o t : t \in Tails}

\* oscillator readings: below range, band 4, the start of band 9, above range
EstOsc == {Rat(-5, 1), Rat(45, 1), Rat(90, 1), Rat(105, 1)}

\* blankly.indicators.rsi(history): one reading per price after the 14-price warm-up
RsiSeries(h, readings) == [1..Max(0, Len(h) - LookBehind) -> readings]

Init ==
  /\ history = [s \in Symbols |-> <<>>]
  /\ kelly_sizes = [s \in Symbols |-> <<>>]
  /\ owns_position = [s \in Symbols |-> "unset"]
  /\ cash = FromInt(InitialCash)
  /\ account = [s \in Symbols |-> Zero]
  /\ orders = <<>>
  /\ fault = "none"
  /\ ticks = 0
  /\ call = [op |-> "none"]

\* strategy.add_price_event(..., init = init_kelly): the harness runs init once per
\* symbol, before that symbol's first tick
CanInit(s) ==
  /\ fault = "none"
  /\ history[s] = <<>>
  /\ kelly_sizes[s] = <<>>
  /\ ticks = 0

EstInit ==
  /\ CanInit("CRM")
  /\ \E h \in EstHistories : \E rsi \in RsiSeries(h, EstOsc) : init_kelly("CRM", h, rsi)

EstNext == EstInit

SpecEst == Init /\ [][EstNext]_vars

----------------------------------------------------------------------------
(* price_kelly and price_baseline: one tick of one symbol *)

\* state.interface.market_order(symbol, side, size) filled at the tick's price:
\* the account's base asset and cash after the order
FillSell(acct, s, size) == [acct EXCEPT ![s] = RSub(@, size)]
FillBuy(acct, s, size) == [acct EXCEPT ![s] = RAdd(@, size)]
CashAfterSell(c, size, price) == RAdd(c, RMul(size, FromInt(price)))
CashAfterBuy(c, size, price) == RSub(c, RMul(size, FromInt(price)))

\* price_kelly sizes with the band's Kelly fraction
KellyFraction(k) == k

\* price_baseline sizes with int(kelly_sizes[ind] > 0.1): all or nothing
BaselineFraction(k) == IF RLess(Rat(1, 10), k) THEN One ELSE Zero

\* variant: the size is rounded up to the next hundredth instead of truncated
BuySizeRoundedUp(fraction, c, price) ==
  LET x == RMul(FromInt(Pow10(Decimals)), RDiv(RMul(fraction, c), FromInt(price)))
  IN  Rat(-((-x.n) \div x.d), Pow10(Decimals))

\* variant: the size is rounded to the nearest hundredth instead of truncated
BuySizeRounded(fraction, c, price) ==
  LET x == RMul(FromInt(Pow10(Decimals)), RDiv(RMul(fraction, c), FromInt(price)))
  IN  Rat((2 * x.n + x.d) \div (2 * x.d), Pow10(Decimals))

\* variant: the size keeps three decimal places
BuySizeThreeDecimals(fraction, c, price) ==
  trunc(RDiv(RMul(fraction, c), FromInt(price)), Decimals + 1)

\* buy = blankly.trunc(fraction * state.interface.cash / price, 2)
BuySize(fraction, c, price) ==
  trunc(RDiv(RMul(fraction, c), FromInt(price)), Decimals)

\* variant: the history is kept as a window that drops its oldest price
appendWindowed(h, price) == Tail(Append(h, price))

\* state.variables['history'].append(price)
append(h, price) == Append(h, price)

\* the body shared by price_kelly and price_baseline; r is rsi[-1]
Tick(op, s, price, r) ==
  LET held == account[s]
      curr_value == trunc(held, Decimals)
      sells == RLess(Zero, curr_value)
      sold == IF sells THEN <<[side |-> "sell", size |-> curr_value]>> ELSE <<>>
      acct1 == IF sells THEN FillSell(account, s, curr_value) ELSE account
      cash1 == IF sells THEN CashAfterSell(cash, curr_value, price) ELSE cash
      ind == TickBand(r)
      locals == [op |-> op, symbol |-> s, price |-> price, r |-> r, held |-> held,
                 curr_value |-> curr_value, ind |-> ind, cash |-> cash1]
  IN  /\ history' = [history EXCEPT ![s] = append(@, price)]
      /\ ticks' = ticks + 1
      /\ IF ~PyInRange(ind, Len(kelly_sizes[s]))
           THEN /\ fault' = "IndexError"
                /\ orders' = sold
                /\ account' = acct1
                /\ cash' = cash1
                /\ call' = locals
         ELSE IF price = 0
           THEN /\ fault' = "ZeroDivisionError"
                /\ orders' = sold
                /\ account' = acct1
                /\ cash' = cash1
                /\ call' = locals
         ELSE LET k == kelly_sizes[s][PyIdx(ind, Len(kelly_sizes[s]))]
                  fraction == IF op = "price_kelly" THEN KellyFraction(k)
                                                    ELSE BaselineFraction(k)
                  buy == BuySize(fraction, cash1, price)
                  buys == RLess(Zero, buy)
              IN  /\ fault' = fault
                  /\ orders' = IF buys THEN Append(sold, [side |-> "buy", size |-> buy])
                                       ELSE sold
                  /\ account' = IF buys THEN FillBuy(acct1, s, buy) ELSE acct1
                  /\ cash' = IF buys THEN CashAfterBuy(cash1, buy, price) ELSE cash1
                  /\ call' = locals @@ [buy |-> buy]
      /\ UNCHANGED <<kelly_sizes, owns_position>>

price_kelly(s, price, r) == Tick("price_kelly", s, price, r)

price_baseline(s, price, r) == Tick("price_baseline", s, price, r)

----------------------------------------------------------------------------
(* A session: init_kelly for every symbol, then ticks *)

\* the symbols of a modelled session
SessionSymbols == {"CRM", "SPY"}

\* histories and indicator series of a modelled session's initialisation:
\* too short for any observation; one win in band 4; a win and a loss in band 4
\* and a win in band 9
SessionInputs ==
  { [h |-> Flat(100, 15), rsi |-> <<Rat(45, 1)>>],
    [h |-> Flat(100, 14) \o <<100, 110>>, rsi |-> <<Rat(45, 1), Rat(45, 1)>>],
    [h |-> Flat(1, 14) \o <<1, 2, 5, 4>>,
     rsi |-> <<Rat(45, 1), Rat(95, 1), Rat(45, 1), Rat(45, 1)>>] }

\* tick prices, including the degenerate zero and negative ones
TickPrices == {-2, 0, 3, 7, 50}

\* latest oscillator readings of a tick: bands 0, 4 and 9
TickOsc == {Rat(-5, 1), Rat(45, 1), Rat(95, 1)}

SessionInit ==
  \E s \in SessionSymbols :
    /\ CanInit(s)
    /\ \E in \in SessionInputs : init_kelly(s, in.h, in.rsi)

\* ticks start once every symbol is initialised, and stop at a fault
CanTick ==
  /\ fault = "none"
  /\ ticks < MaxTicks
  /\ \A s \in SessionSymbols : kelly_sizes[s] # <<>>

KellyTick ==
  /\ CanTick
  /\ \E s \in SessionSymbols, price \in TickPrices, r \in TickOsc : price_kelly(s, price, r)

BaselineTick ==
  /\ CanTick
  /\ \E s \in SessionSymbols, price \in TickPrices, r \in TickOsc : price_baseline(s, price, r)

Next == SessionInit \/ KellyTick \/ BaselineTick

Spec == Init /\ [][Next]_vars

----------------------------------------------------------------------------
(* The two band computations applied to one oscillator reading *)

BandReadings ==
  {Rat(n, OscDen) : n \in (-(OscOver * OscDen))..((100 + OscOver) * OscDen)}

BandSpecInit ==
  /\ history = [s \in Symbols |-> <<>>]
  /\ kelly_sizes = [s \in Symbols |-> <<>>]
  /\ owns_position = [s \in Symbols |-> "unset"]
  /\ cash = FromInt(InitialCash)
  /\ account = [s \in Symbols |-> Zero]
  /\ orders = <<>>
  /\ fault = "none"
  /\ ticks = 0
  /\ \E r \in BandReadings : call = [op |-> "band", r |-> r, init |-> <<>>, tick |-> <<>>]

\* the band as init_kelly computes it
BandAtInit ==
  /\ call.init = <<>>
  /\ call' = [call EXCEPT !.init = <<InitBand(call.r)>>]
  /\ UNCHANGED <<history, kelly_sizes, owns_position, cash, account, orders, fault, ticks>>

\* the band as price_kelly and price_baseline compute it
BandAtTick ==
  /\ call.tick = <<>>
  /\ call' = [call EXCEPT !.tick = <<TickBand(call.r)>>]
  /\ UNCHANGED <<history, kelly_sizes, owns_position, cash, account, orders, fault, ticks>>

BandNext == BandAtInit \/ BandAtTick

SpecBand == BandSpecInit /\ [][BandNext]_vars

----------------------------------------------------------------------------
(* Properties of init_kelly *)

\* the band of a reading as the specification states it
BandOf(v) ==
  IF RLess(v, Zero) THEN 0
  ELSE IF RLeq(FromInt(90), v) THEN 9
  ELSE v.n \div (v.d * 10)

\* the most recent call was an init_kelly that returned normally
InitReturned == call.op = "init_kelly" /\ fault = "none"

\* 0-based indices i of the observations of a history: 0..N-16
ObsIdx(h) == 0..(Len(h) - 16)
Future(h, i) == h[i + 15 + 1]
Current(h, i) == h[i + 14 + 1]

\* observations of band b, by outcome
TotalIdx(h, rsi, b) ==
  {i \in ObsIdx(h) : BandOf(rsi[i + 1]) = b /\ Future(h, i) # Current(h, i)}
WinIdx(h, rsi, b) ==
  {i \in ObsIdx(h) : BandOf(rsi[i + 1]) = b /\ Future(h, i) > Current(h, i)}
LossIdx(h, rsi, b) ==
  {i \in ObsIdx(h) : BandOf(rsi[i + 1]) = b /\ Future(h, i) < Current(h, i)}

\* sum of the relative moves (future - current)/current over a set of observations
RECURSIVE SumMoves(_, _)
SumMoves(h, I) ==
  IF I = {} THEN Zero
  ELSE LET i == CHOOSE x \in I : TRUE
       IN  RAdd(Rat(Future(h, i) - Current(h, i), Current(h, i)), SumMoves(h, I \ {i}))

\* C4: after init_kelly, each band's total count is the number of its observations
\* with future # current, its win count the number with future > current, and its
\* two magnitude sums range over wins and losses only: an exact tie changes no
\* accumulator of any band.
C4_TiesDropped ==
  InitReturned =>
    LET h == history[call.symbol]
        rsi == call.rsi
    IN  \A b \in 0..9 :
          /\ call.buckets[b + 1][2] = Cardinality(TotalIdx(h, rsi, b))
          /\ call.buckets[b + 1][1] = Cardinality(WinIdx(h, rsi, b))
          /\ call.buckets[b + 1][4] = SumMoves(h, WinIdx(h, rsi, b))
          /\ call.buckets[b + 1][3] = SumMoves(h, LossIdx(h, rsi, b))

\* a band that saw an exact tie and a real move
C4_Witness ==
  /\ InitReturned
  /\ LET h == history[call.symbol]
         rsi == call.rsi
     IN  \E i, j \in ObsIdx(h) :
           /\ Future(h, i) = Current(h, i)
           /\ Future(h, j) # Current(h, j)
           /\ BandOf(rsi[i + 1]) = BandOf(rsi[j + 1])

\* the table entry the specification derives from one band's accumulators
ClaimP(e) == IF e[2] > 0 THEN Rat(e[1], e[2]) ELSE Zero
ClaimR(e) ==
  IF e[1] = 0 THEN Zero
  ELSE IF e[2] - e[1] = 0 THEN One
  ELSE RDiv(RDiv(e[4], FromInt(e[1])), RDiv(RNeg(e[3]), FromInt(e[2] - e[1])))
ClaimFraction(e) ==
  IF ClaimR(e) = Zero THEN Zero
  ELSE RMax(Zero, RSub(ClaimP(e), RDiv(RSub(One, ClaimP(e)), ClaimR(e))))

\* C3: every table entry is max(0, P - (1-P)/R) of its band's accumulators, with
\* P = wins/total (0 without observations) and R = 0 without wins, 1 without
\* losses, else (winSum/wins)/(-lossSum/losses); a band without wins gets 0 and a
\* band with wins and no losses gets R = 1, hence 1.
C3_KellyFromAccumulators ==
  InitReturned =>
    \A b \in 1..10 :
      LET e == call.buckets[b]
          f == kelly_sizes[call.symbol][b]
      IN  /\ f = ClaimFraction(e)
          /\ e[1] = 0 => f = Zero
          /\ (e[1] > 0 /\ e[2] - e[1] = 0) => (ratios(e) = One /\ f = One)

\* a band with wins and losses whose fraction is strictly between 0 and 1
C3_Witness ==
  /\ InitReturned
  /\ \E b \in 1..10 :
       /\ call.buckets[b][1] > 0
       /\ call.buckets[b][2] > call.buckets[b][1]
       /\ RLess(Zero, kelly_sizes[call.symbol][b])
       /\ RLess(kelly_sizes[call.symbol][b], One)

\* C2: a table produced by init_kelly has exactly 10 entries, one per band, and
\* every entry is >= 0.
C2_TenNonNegative ==
  \A s \in Symbols :
    kelly_sizes[s] # <<>> =>
      /\ DOMAIN kelly_sizes[s] = 1..10
      /\ \A b \in 1..10 : RLeq(Zero, kelly_sizes[s][b])

\* a band whose unclamped Kelly value is negative
C2_Witness ==
  /\ InitReturned
  /\ \E b \in 1..10 :
       LET e == call.buckets[b]
       IN  /\ e[1] > 0
           /\ e[2] > e[1]
           /\ RLess(RSub(ClaimP(e), RDiv(RSub(One, ClaimP(e)), ClaimR(e))), Zero)
           /\ kelly_sizes[call.symbol][b] = Zero

\* C7: on a history of length N <= 15, init_kelly returns without raising and the
\* table is zero in all 10 bands.
C7_ShortHistoryAllZero ==
  (call.op = "init_kelly" /\ Len(history[call.symbol]) <= 15) =>
    /\ fault = "none"
    /\ kelly_sizes[call.symbol] = [b \in 1..10 |-> Zero]

\* init_kelly ran on a history of exactly 15 prices
C7_Witness ==
  /\ call.op = "init_kelly"
  /\ Len(history[call.symbol]) = 15
  /\ kelly_sizes[call.symbol] # <<>>

----------------------------------------------------------------------------
(* Properties of the band computations *)

\* C1: for every reading v the band computed at estimation time and the band
\* computed at tick time are both 0 when v < 0, 9 when v >= 90 and floor(v/10)
\* otherwise; both lie in 0..9 and they agree.
C1_BandClamped ==
  call.op = "band" =>
    /\ call.init # <<>> => (call.init[1] = BandOf(call.r) /\ call.init[1] \in 0..9)
    /\ call.tick # <<>> => (call.tick[1] = BandOf(call.r) /\ call.tick[1] \in 0..9)
    /\ (call.init # <<>> /\ call.tick # <<>>) => call.init = call.tick

\* both bands computed for a reading of 100 or more, where floor(v/10) exceeds 9
C1_Witness ==
  /\ call.op = "band"
  /\ RLeq(FromInt(100), call.r)
  /\ call.init = <<9>>
  /\ call.tick = <<9>>

----------------------------------------------------------------------------
(* Properties of the tick handlers *)

TickOps == {"price_kelly", "price_baseline"}

\* the most recent call was a tick
Ticked == call.op \in TickOps

BuyOrders == {k \in 1..Len(orders) : orders[k].side = "buy"}

\* C5 as stated: on a tick whose price or available cash is zero or negative, no
\* error is raised, the allocation is 0 and no buy order is issued.
C5_DegenerateInputYieldsZero ==
  (Ticked /\ (call.price <= 0 \/ RLeq(call.cash, Zero))) =>
    /\ fault = "none"
    /\ call.buy = Zero
    /\ BuyOrders = {}

C8_BuyTruncated ==
  (call.op = "price_kelly" /\ fault = "none" /\ call.price > 0) =>
    LET k == kelly_sizes[call.symbol][BandOf(call.r) + 1]
        x == RDiv(RMul(k, call.cash), FromInt(call.price))
        hundredths == RMul(FromInt(100), call.buy)
    IN  /\ hundredths.d = 1
        /\ IF RLeq(Zero, x)
             THEN RLeq(call.buy, x) /\ RLess(x, RAdd(call.buy, Rat(1, 100)))
             ELSE RLeq(x, call.buy) /\ RLess(RSub(call.buy, Rat(1, 100)), x)
        /\ RLess(Zero, call.buy) <=>
             (\E n \in 1..Len(orders) : orders[n] = [side |-> "buy", size |-> call.buy])
        /\ ~RLess(Zero, call.buy) => BuyOrders = {}

\* a price_kelly tick whose exact size has more than two decimal places
C8_Witness ==
  /\ call.op = "price_kelly"
  /\ fault = "none"
  /\ call.price > 0
  /\ RLess(Zero, call.buy)
  /\ RLess(call.buy,
           RDiv(RMul(kelly_sizes[call.symbol][BandOf(call.r) + 1], call.cash),
                FromInt(call.price)))

\* C9: every tick leaves every sizing table unchanged and changes the price
\* history only by appending the tick's price to the ticking symbol's history.
C9_TickFrame ==
  [][ticks' # ticks =>
       /\ kelly_sizes' = kelly_sizes
       /\ call'.op \in TickOps
       /\ history'[call'.symbol] = Append(history[call'.symbol], call'.price)
       /\ Len(history'[call'.symbol]) = Len(history[call'.symbol]) + 1
       /\ \A t \in Symbols \ {call'.symbol} : history'[t] = history[t]]_vars

\* a symbol ticked at least twice
C9_Witness ==
  /\ Ticked
  /\ ticks >= 2
  /\ \E s \in Symbols :
       /\ Len(history[s]) >= 17
       /\ kelly_sizes[s] # <<>>
       /\ history[s][Len(history[s])] = call.price
       /\ history[s][Len(history[s]) - 1] \in TickPrices
       /\ history[s][Len(history[s]) - 2] \notin TickPrices

\* C10: every entry of a table built from positive prices is at most 1, and on
\* every tick with positive price and non-negative cash the buy costs no more
\* than the cash read at that tick, also when several symbols draw on the same
\* cash.
C10_BuyWithinCash ==
  /\ \A s \in Symbols :
       kelly_sizes[s] # <<>> => \A b \in 1..10 : RLeq(kelly_sizes[s][b], One)
  /\ (Ticked /\ fault = "none" /\ call.price > 0 /\ RLeq(Zero, call.cash)) =>
       /\ RLeq(RMul(call.buy, FromInt(call.price)), call.cash)
       /\ RLeq(Zero, cash)

\* two symbols hold positions bought from the same cash
C10_Witness ==
  /\ Ticked
  /\ fault = "none"
  /\ call.price > 0
  /\ RLess(Zero, call.buy)
  /\ \E s \in Symbols \ {call.symbol} : RLess(Zero, account[s])

====
